---- MODULE Spec2Model ----
(***************************************************************************)
(* The specification-driven record materializer of ETL.py / Debugged.py:   *)
(* CsvImporter.__init__ (dependency map, _toposort, spec list),            *)
(* import_data / _records_for_row (per-row evaluation with the sibling     *)
(* map), the value providers' _read, DbRecord.import_attributes and        *)
(* DbRecord.insert_statement.                                              *)
(*                                                                         *)
(* Python values are records [t |-> type, v |-> text]; a text is a tuple   *)
(* of one-character strings, so that string_exp can be computed.           *)
(* A dict is modelled by the sequence of its (key, value) pairs in         *)
(* iteration order where that order is observable (attr_map, attributes),  *)
(* and by a function otherwise (flat_specs, dependency_map, xref_map).     *)
(***************************************************************************)
EXTENDS Integers, Sequences, FiniteSets, TLC

VARIABLES
    driver,        \* which file's classes run: "ETL" or "Debugged"
    import_specs,  \* the import_specs argument {table: {instance: RecordSpec}}
    pc,            \* position of the run
    specs,         \* self.specs
    error,         \* the exception / exit that ended the run
    id_col,        \* the id_col argument import_data is called with
    row_num,       \* import_data: row_num
    row,           \* the row the reader yielded
    spec_idx,      \* _records_for_row: position in self.specs (1-based)
    row_records,   \* _records_for_row: records
    xref_map,      \* _records_for_row: xref_map
    record,        \* _records_for_row: the DbRecord last created
    records,       \* import_data: records
    returned,      \* what import_data returned (NoReturn until it returns)
    ser_idx,       \* position of the serializing loop in the returned records
    statements,    \* the statements insert_statement returned so far
    printed        \* the ERROR / WARNING lines printed by insert_statement

vars == <<driver, import_specs, pc, specs, error, id_col, row_num, row, spec_idx,
          row_records, xref_map, record, records, returned, ser_idx, statements,
          printed>>

(***************************************************************************)
(* Bounds of the model.                                                    *)
(***************************************************************************)
MaxRows == 2
MaxDeps == 2
MaxAttrs == 3

(***************************************************************************)
(* Python values.                                                          *)
(***************************************************************************)
PyStr(s) == [t |-> "str", v |-> s]
PyInt(s) == [t |-> "int", v |-> s]
PyBool(b) == [t |-> "bool", v |-> IF b THEN <<"T","r","u","e">> ELSE <<"F","a","l","s","e">>]
PyNone == [t |-> "NoneType", v |-> <<"N","o","n","e">>]

\* "x is False": identity with the singleton False
IsLiteralFalse(x) == x.t = "bool" /\ x = PyBool(FALSE)

\* Python truth value testing (bool(x)) of the values of the model
Truthy(x) ==
    CASE x.t = "bool" -> x = PyBool(TRUE)
      [] x.t = "NoneType" -> FALSE
      [] x.t = "str" -> x.v # <<>>
      [] x.t = "int" -> x.v # <<"0">>
      [] OTHER -> TRUE

\* isinstance(v, str)
IsStr(x) == x.t = "str"

One == PyStr(<<"1">>)
Alice == PyStr(<<"A","l","i","c","e">>)
EmptyStr == PyStr(<<>>)
Five == PyInt(<<"5">>)

(***************************************************************************)
(* Errors: the exception (or exit) and where it was raised.                *)
(***************************************************************************)
Err(kind, origin, table, instance, attr, nodes) ==
    [kind |-> kind, origin |-> origin, table |-> table, instance |-> instance,
     attr |-> attr, nodes |-> nodes]

NoError == Err("none", "", "", "", "", {})
NoReturn == <<"NoReturn">>

(***************************************************************************)
(* Value providers and RecordSpec.                                         *)
(***************************************************************************)
ConstValue(value) == [kind |-> "ConstValue", value |-> value]
ColumnValue(col_name, convert) ==
    [kind |-> "ColumnValue", col_name |-> col_name, convert |-> convert]
DynamicValue(generate) == [kind |-> "DynamicValue", generate |-> generate]
XReference(table_name, instance_name, attribute_name) ==
    [kind |-> "XReference", table_name |-> table_name,
     instance_name |-> instance_name, attribute_name |-> attribute_name]
\* a raw constant placed where a provider was expected: an object without _read
RawValue(value) == [kind |-> "Raw", value |-> value]

\* RecordSpec.__init__: no condition (None) becomes lambda row: True
RecordSpec(attr_map, condition) ==
    [attr_map |-> attr_map,
     condition |-> IF condition = "None" THEN "lambda row: True" ELSE condition]

\* spec.condition(row) for the predicates of the model
Condition(spec, r) ==
    CASE spec.condition = "lambda row: True" -> PyBool(TRUE)
      [] spec.condition = "lambda row: row['name'] != ''" -> PyBool(r["name"] # EmptyStr)
      [] spec.condition = "lambda row: row['name']" -> r["name"]

\* the value of key k in a dict kept as a sequence of pairs
HasKey(d, k) == \E j \in 1..Len(d) : d[j][1] = k
Get(d, k) == d[CHOOSE j \in 1..Len(d) : d[j][1] = k][2]
Keys(d) == [j \in 1..Len(d) |-> d[j][1]]

(***************************************************************************)
(* CsvImporter.__init__: flattening, dependency map, _toposort, spec list. *)
(***************************************************************************)
\* flat_specs: {(t, i): s} from {t: {i: s}}
Flatten(nested) ==
    LET paths == UNION {{<<t, i>> : i \in DOMAIN nested[t]} : t \in DOMAIN nested}
    IN  [path \in paths |-> nested[path[1]][path[2]]]

\* deps of one spec: the (table_name, instance_name) of every XReference value
Deps(s) ==
    {<<s.attr_map[j][2].table_name, s.attr_map[j][2].instance_name>> :
        j \in {n \in 1..Len(s.attr_map) : s.attr_map[n][2].kind = "XReference"}}

DependencyMap(flat_specs) == [path \in DOMAIN flat_specs |-> Deps(flat_specs[path])]

\* the while loop of _toposort: the layers yielded, and data when it stops
RECURSIVE ToposortLayers(_)
ToposortLayers(data) ==
    LET ordered == {item \in DOMAIN data : data[item] = {}}
    IN  IF ordered = {}
        THEN [layers |-> <<>>, data |-> data]
        ELSE LET rest == ToposortLayers([item \in DOMAIN data \ ordered |->
                                            data[item] \ ordered])
             IN  [layers |-> <<ordered>> \o rest.layers, data |-> rest.data]

\* The mutant of Toposort: the final assert is missing (as when asserts are off).
ToposortNoAssert(data0) ==
    IF DOMAIN data0 = {}
    THEN [exc |-> "TypeError", layers |-> <<>>, nodes |-> {}]
    ELSE LET noself == [k \in DOMAIN data0 |-> data0[k] \ {k}]
             extra_items == UNION {noself[k] : k \in DOMAIN noself} \ DOMAIN noself
             data == [k \in DOMAIN noself \cup extra_items |->
                        IF k \in DOMAIN noself THEN noself[k] ELSE {}]
             loop == ToposortLayers(data)
         IN  [exc |-> "none", layers |-> loop.layers, nodes |-> {}]

\* _toposort(data), consumed to its end: the layers it yields and how it ends.
\* reduce() of an empty sequence raises TypeError; the assert raises when the
\* loop stops with nodes remaining.
Toposort(data0) ==
    IF DOMAIN data0 = {}
    THEN [exc |-> "TypeError", layers |-> <<>>, nodes |-> {}]
    ELSE LET noself == [k \in DOMAIN data0 |-> data0[k] \ {k}]
             extra_items == UNION {noself[k] : k \in DOMAIN noself} \ DOMAIN noself
             data == [k \in DOMAIN noself \cup extra_items |->
                        IF k \in DOMAIN noself THEN noself[k] ELSE {}]
             loop == ToposortLayers(data)
         IN  IF DOMAIN loop.data # {}
             THEN [exc |-> "AssertionError", layers |-> loop.layers,
                   nodes |-> DOMAIN loop.data]
             ELSE [exc |-> "none", layers |-> loop.layers, nodes |-> {}]

\* the orders in which a set can be iterated
RECURSIVE Orders(_)
Orders(S) ==
    IF S = {} THEN {<<>>}
    ELSE UNION {{<<x>> \o o : o \in Orders(S \ {x})} : x \in S}

\* [val for sub in _toposort(...) for val in sub]: the layers in the order
\* produced, each set in some iteration order
\* The mutant of SortedKeys: the layers are flattened last layer first.
RECURSIVE SortedKeysReversed(_)
SortedKeysReversed(layers) ==
    IF layers = <<>> THEN {<<>>}
    ELSE {rest \o o : o \in Orders(Head(layers)),
                      rest \in SortedKeysReversed(Tail(layers))}

RECURSIVE SortedKeys(_)
SortedKeys(layers) ==
    IF layers = <<>> THEN {<<>>}
    ELSE {o \o rest : o \in Orders(Head(layers)), rest \in SortedKeys(Tail(layers))}

\* The mutant of BuildSpecs: a key without a RecordSpec is skipped.
BuildSpecsSkipMissing(flat_specs, sorted_keys, drv) ==
    LET present == SelectSeq(sorted_keys, LAMBDA k : k \in DOMAIN flat_specs)
    IN  [exc |-> NoError,
         specs |-> [j \in 1..Len(present) |->
                      <<present[j][1], present[j][2], flat_specs[present[j]]>>]]

\* The mutant of BuildSpecs: the two format arguments of the message swapped.
BuildSpecsSwapped(flat_specs, sorted_keys, drv) ==
    LET missing == {j \in 1..Len(sorted_keys) : sorted_keys[j] \notin DOMAIN flat_specs}
    IN  IF missing = {}
        THEN [exc |-> NoError,
              specs |-> [j \in 1..Len(sorted_keys) |->
                           <<sorted_keys[j][1], sorted_keys[j][2],
                             flat_specs[sorted_keys[j]]>>]]
        ELSE LET k == sorted_keys[CHOOSE j \in missing : \A n \in missing : j <= n]
             IN  [exc |-> Err(IF drv = "ETL" THEN "KeyError" ELSE "SystemExit",
                              "__init__", k[2], k[1], "", {}),
                  specs |-> <<>>]

\* self.specs = [(t, i, flat_specs[(t, i)]) ...]: the first key without a
\* RecordSpec raises KeyError((t, i)); Debugged.py catches it, prints the
\* message with i and t (the comprehension's variables) and exits.
BuildSpecs(flat_specs, sorted_keys, drv) ==
    LET missing == {j \in 1..Len(sorted_keys) : sorted_keys[j] \notin DOMAIN flat_specs}
    IN  IF missing = {}
        THEN [exc |-> NoError,
              specs |-> [j \in 1..Len(sorted_keys) |->
                           <<sorted_keys[j][1], sorted_keys[j][2],
                             flat_specs[sorted_keys[j]]>>]]
        ELSE LET k == sorted_keys[CHOOSE j \in missing : \A n \in missing : j <= n]
             IN  [exc |-> Err(IF drv = "ETL" THEN "KeyError" ELSE "SystemExit",
                              "__init__", k[1], k[2], "", {}),
                  specs |-> <<>>]

(***************************************************************************)
(* The providers' _read and DbRecord.import_attributes.                    *)
(***************************************************************************)
Ok(value) == [exc |-> "none", origin |-> "", value |-> value]
Raise(exc, origin) == [exc |-> exc, origin |-> origin, value |-> PyNone]

\* ColumnValue._read: row[self.col_name], converted when convert is given
ColumnValueRead(v, r) ==
    IF v.col_name \notin DOMAIN r THEN Raise("KeyError", "ColumnValue._read")
    ELSE CASE v.convert = "None" -> Ok(r[v.col_name])
           [] v.convert = "lambda v: v or None" ->
                 Ok(IF Truthy(r[v.col_name]) THEN r[v.col_name] ELSE PyNone)

\* DynamicValue._read: self.generate(row) for the generators of the model;
\* row.name is an attribute access on a dict and raises AttributeError
DynamicValueRead(v, r) ==
    CASE v.generate = "lambda row: row['name']" -> Ok(r["name"])
      [] v.generate = "lambda row: row.name" -> Raise("AttributeError", "DynamicValue._read")

\* the keyword under which XReference._read looks up the sibling records
ExistingRecordsKey(drv) == IF drv = "ETL" THEN "existing_records" ELSE "user_data.txt"

\* The mutant of XReferenceRead: a sibling that is not there reads as None
\* (dict.get) instead of raising KeyError.
XReferenceReadLenient(v, kw_args, drv) ==
    IF ExistingRecordsKey(drv) \notin DOMAIN kw_args
    THEN Ok(PyNone)
    ELSE LET existing_records == kw_args[ExistingRecordsKey(drv)]
             path == <<v.table_name, v.instance_name>>
         IN  IF path \notin DOMAIN existing_records
             THEN Ok(PyNone)
             ELSE IF ~HasKey(existing_records[path].attributes, v.attribute_name)
                  THEN Ok(PyNone)
                  ELSE Ok(Get(existing_records[path].attributes, v.attribute_name))

\* XReference._read: kw_args[<key>][(table_name, instance_name)]
\*                     .attributes[attribute_name]; each lookup may raise KeyError
XReferenceRead(v, kw_args, drv) ==
    IF ExistingRecordsKey(drv) \notin DOMAIN kw_args
    THEN Raise("KeyError", "XReference._read")
    ELSE LET existing_records == kw_args[ExistingRecordsKey(drv)]
             path == <<v.table_name, v.instance_name>>
         IN  IF path \notin DOMAIN existing_records
             THEN Raise("KeyError", "XReference._read")
             ELSE IF ~HasKey(existing_records[path].attributes, v.attribute_name)
                  THEN Raise("KeyError", "XReference._read")
                  ELSE Ok(Get(existing_records[path].attributes, v.attribute_name))

\* '_read' not in dir(v)
LacksRead(v) == v.kind = "Raw"

\* v._read(row, existing_records=existing_records)
Read(v, r, existing_records, drv) ==
    CASE LacksRead(v) -> Raise("AttributeError", "import_attributes")
      [] v.kind = "ConstValue" -> Ok(v.value)
      [] v.kind = "ColumnValue" -> ColumnValueRead(v, r)
      [] v.kind = "DynamicValue" -> DynamicValueRead(v, r)
      [] v.kind = "XReference" ->
            XReferenceRead(v, [existing_records |-> existing_records], drv)

\* the dict comprehension of import_attributes from item j on: the items are
\* read in iteration order and the first exception ends it
RECURSIVE ReadAll(_, _, _, _, _)
ReadAll(attr_map, j, r, existing_records, drv) ==
    IF j > Len(attr_map) THEN [exc |-> "none", origin |-> "", imported |-> <<>>]
    ELSE LET got == Read(attr_map[j][2], r, existing_records, drv)
         IN  IF got.exc # "none"
             THEN [exc |-> got.exc, origin |-> got.origin, imported |-> <<>>]
             ELSE LET rest == ReadAll(attr_map, j + 1, r, existing_records, drv)
                  IN  IF rest.exc # "none" THEN rest
                      ELSE [exc |-> "none", origin |-> "",
                            imported |-> <<<<attr_map[j][1], got.value>>>> \o rest.imported]

\* dict.update: a key already there keeps its place and takes the new value
RECURSIVE Update(_, _)
Update(d, other) ==
    IF other = <<>> THEN d
    ELSE LET k == Head(other)[1]
             w == Head(other)[2]
             d2 == IF HasKey(d, k)
                   THEN [j \in 1..Len(d) |-> IF d[j][1] = k THEN <<k, w>> ELSE d[j]]
                   ELSE Append(d, <<k, w>>)
         IN  Update(d2, Tail(other))

DbRecord(table_name, row_id) ==
    [table_name |-> table_name, row_id |-> row_id, attributes |-> <<>>]

\* DbRecord.import_attributes: the record afterwards and the exception, if any.
\* On AttributeError the first item without _read is reported and the run
\* exits; next() raises StopIteration when there is none.
ImportAttributes(self, attr_map, existing_records, r, drv) ==
    LET got == ReadAll(attr_map, 1, r, existing_records, drv)
        lacking == {j \in 1..Len(attr_map) : LacksRead(attr_map[j][2])}
    IN  CASE got.exc = "none" ->
                [exc |-> NoError,
                 self |-> [self EXCEPT !.attributes = Update(@, got.imported)]]
          [] got.exc = "AttributeError" /\ lacking # {} ->
                [exc |-> Err("SystemExit", "import_attributes", self.table_name, "",
                             attr_map[CHOOSE j \in lacking : \A n \in lacking : j <= n][1],
                             {}),
                 self |-> self]
          [] got.exc = "AttributeError" /\ lacking = {} ->
                [exc |-> Err("StopIteration", "import_attributes", self.table_name, "",
                             "", {}),
                 self |-> self]
          [] OTHER ->
                [exc |-> Err(got.exc, got.origin, self.table_name, "", "", {}),
                 self |-> self]

(***************************************************************************)
(* DbRecord.insert_statement and the string_exp heuristic.                 *)
(***************************************************************************)
UpperCase == <<"A","B","C","D","E","F","G","H","I","J","K","L","M">> \o
             <<"N","O","P","Q","R","S","T","U","V","W","X","Y","Z">>
LowerCase == <<"a","b","c","d","e","f","g","h","i","j","k","l","m">> \o
             <<"n","o","p","q","r","s","t","u","v","w","x","y","z">>

\* re.IGNORECASE: characters are compared in lower case
Lower(c) ==
    IF \E j \in 1..Len(UpperCase) : UpperCase[j] = c
    THEN LowerCase[CHOOSE j \in 1..Len(UpperCase) : UpperCase[j] = c]
    ELSE c

sql_fun ==
    {<<"t","r","u","e">>, <<"f","a","l","s","e">>,
     <<"a","v","g">>, <<"c","o","u","n","t">>,
     <<"f","i","r","s","t">>, <<"l","a","s","t">>,
     <<"m","a","x">>, <<"m","i","n">>,
     <<"s","u","m">>, <<"u","c","a","s","e">>,
     <<"l","c","a","s","e">>, <<"m","i","d">>,
     <<"l","e","n">>, <<"r","o","u","n","d">>,
     <<"n","o","w">>, <<"f","o","r","m","a","t">>}

StartsWith(s, prefix) ==
    /\ Len(s) >= Len(prefix)
    /\ \A j \in 1..Len(prefix) : Lower(s[j]) = prefix[j]

\* string_exp.match(v): ^(?!["']|true|false|...).*[a-z], ignoring case; "."
\* does not match a newline
string_exp_match(s) ==
    /\ ~StartsWith(s, <<"\"">>)
    /\ ~StartsWith(s, <<"'">>)
    /\ \A w \in sql_fun : ~StartsWith(s, w)
    /\ \E j \in 1..Len(s) :
          /\ \E n \in 1..Len(LowerCase) : LowerCase[n] = Lower(s[j])
          /\ \A i \in 1..(j - 1) : s[i] # "\n"

\* sep.join(items), kept as the sequence of its pieces
Join(sep, items) ==
    [j \in 1..(IF Len(items) = 0 THEN 0 ELSE 2 * Len(items) - 1) |->
        IF j % 2 = 1 THEN items[(j + 1) \div 2] ELSE sep]

\* the message printed for attribute j, if any
Message(self, j) ==
    LET k == self.attributes[j][1]
        v == self.attributes[j][2]
    IN  IF ~IsStr(v)
        THEN <<[level |-> "ERROR", value |-> v, attr |-> k, table |-> self.table_name]>>
        ELSE IF string_exp_match(v.v)
             THEN <<[level |-> "WARNING", value |-> v, attr |-> k,
                     table |-> self.table_name]>>
             ELSE <<>>

\* the sanity loop from attribute j on: every message, in attribute order
RECURSIVE Messages(_, _)
Messages(self, j) ==
    IF j > Len(self.attributes) THEN <<>>
    ELSE Message(self, j) \o Messages(self, j + 1)

\* The mutant of InsertStatement: the sanity loop stops at the first error.
RECURSIVE MessagesUntilError(_, _)
MessagesUntilError(self, j) ==
    IF j > Len(self.attributes) THEN <<>>
    ELSE IF ~IsStr(self.attributes[j][2]) THEN Message(self, j)
         ELSE Message(self, j) \o MessagesUntilError(self, j + 1)

InsertStatementFirstError(self) ==
    LET out == MessagesUntilError(self, 1)
        error_flag == \E j \in 1..Len(out) : out[j].level = "ERROR"
    IN  [printed |-> out,
         exit |-> error_flag,
         sql |-> IF error_flag THEN <<>>
                 ELSE <<[table_name |-> self.table_name,
                         col |-> Join(", ", Keys(self.attributes)),
                         val |-> Join(<<",", " ">>,
                                      [j \in 1..Len(self.attributes) |->
                                          self.attributes[j][2].v])]>>]

\* DbRecord.insert_statement: what it prints, whether it exits, and the
\* statement 'INSERT INTO ' + table_name + ' (' + col + ')' + ' VALUES' +
\* ' (' + val + ')' + ';\n' as <<>> (none) or <<[table_name, col, val]>>
InsertStatement(self) ==
    LET out == Messages(self, 1)
        error_flag == \E j \in 1..Len(out) : out[j].level = "ERROR"
    IN  [printed |-> out,
         exit |-> error_flag,
         sql |-> IF error_flag THEN <<>>
                 ELSE <<[table_name |-> self.table_name,
                         col |-> Join(", ", Keys(self.attributes)),
                         val |-> Join(<<",", " ">>,
                                      [j \in 1..Len(self.attributes) |->
                                          self.attributes[j][2].v])]>>]

(***************************************************************************)
(* The run: CsvImporter(path, dialect, import_specs), import_data(id_col), *)
(* then insert_statement on every record returned.                         *)
(***************************************************************************)
\* row_id = row[id_col] if id_col else row_num
RowId == IF id_col # "None" THEN row[id_col] ELSE [t |-> "int", n |-> row_num]

\* the rows the reader can yield
Rows == {[name |-> Alice], [name |-> EmptyStr]}

\* CsvImporter.__init__
Construct ==
    /\ pc = "new"
    /\ LET flat_specs == Flatten(import_specs)
           sorted == Toposort(DependencyMap(flat_specs))
       IN  IF sorted.exc # "none"
           THEN /\ pc' = "failed"
                /\ error' = Err(sorted.exc, "_toposort", "", "", "", sorted.nodes)
                /\ UNCHANGED specs
           ELSE \E sorted_keys \in SortedKeys(sorted.layers) :
                   LET built == BuildSpecs(flat_specs, sorted_keys, driver)
                   IN  IF built.exc # NoError
                       THEN /\ pc' = "failed"
                            /\ error' = built.exc
                            /\ UNCHANGED specs
                       ELSE /\ pc' = "ready"
                            /\ specs' = built.specs
                            /\ UNCHANGED error
    /\ UNCHANGED <<driver, import_specs, id_col, row_num, row, spec_idx, row_records,
                   xref_map, record, records, returned, ser_idx, statements, printed>>

\* import_data(id_col) is called: records = [], the file is opened, row_num = 0
StartImport ==
    /\ pc = "ready"
    /\ records' = <<>>
    /\ row_num' = 0
    /\ pc' = "reading"
    /\ UNCHANGED <<driver, import_specs, specs, error, id_col, row, spec_idx,
                   row_records, xref_map, record, returned, ser_idx, statements, printed>>

\* The mutant of NextRow: the sibling map of the previous row is kept.
NextRowKeepMap ==
    /\ pc = "reading"
    /\ row_num < MaxRows
    /\ \E r \in Rows : row' = r
    /\ row_records' = <<>>
    /\ spec_idx' = 1
    /\ pc' = "row"
    /\ UNCHANGED <<driver, import_specs, specs, error, id_col, row_num, record, records,
                   returned, ser_idx, statements, printed, xref_map>>

\* the reader yields a row and _records_for_row starts: records = [], xref_map = {}
NextRow ==
    /\ pc = "reading"
    /\ row_num < MaxRows
    /\ \E r \in Rows : row' = r
    /\ row_records' = <<>>
    /\ xref_map' = <<>>
    /\ spec_idx' = 1
    /\ pc' = "row"
    /\ UNCHANGED <<driver, import_specs, specs, error, id_col, row_num, record, records,
                   returned, ser_idx, statements, printed>>

\* one pass of the loop over self.specs in _records_for_row
EvalSpec ==
    /\ pc = "row"
    /\ spec_idx <= Len(specs)
    /\ LET table == specs[spec_idx][1]
           instance == specs[spec_idx][2]
           spec == specs[spec_idx][3]
       IN  IF IsLiteralFalse(Condition(spec, row))
           THEN /\ spec_idx' = spec_idx + 1
                /\ UNCHANGED <<pc, error, record, row_records, xref_map>>
           ELSE LET done == ImportAttributes(DbRecord(table, RowId), spec.attr_map,
                                             xref_map, row, driver)
                IN  /\ record' = done.self
                    /\ IF done.exc # NoError
                       THEN /\ pc' = "failed"
                            /\ error' = done.exc
                            /\ UNCHANGED <<spec_idx, row_records, xref_map>>
                       ELSE /\ row_records' = Append(row_records, done.self)
                            /\ xref_map' = (<<table, instance>> :> done.self) @@ xref_map
                            /\ spec_idx' = spec_idx + 1
                            /\ UNCHANGED <<pc, error>>
    /\ UNCHANGED <<driver, import_specs, specs, id_col, row_num, row, records, returned,
                   ser_idx, statements, printed>>

\* _records_for_row returns: records += ..., row_num += 1
ReturnRow ==
    /\ pc = "row"
    /\ spec_idx > Len(specs)
    /\ records' = records \o row_records
    /\ row_num' = row_num + 1
    /\ pc' = "reading"
    /\ UNCHANGED <<driver, import_specs, specs, error, id_col, row, spec_idx, row_records,
                   xref_map, record, returned, ser_idx, statements, printed>>

\* the reader is exhausted: import_data returns records
EndOfFile ==
    /\ pc = "reading"
    /\ returned' = records
    /\ ser_idx' = 1
    /\ pc' = "done"
    /\ UNCHANGED <<driver, import_specs, specs, error, id_col, row_num, row, spec_idx,
                   row_records, xref_map, record, records, statements, printed>>

\* insert_statement on the next record returned
Serialize ==
    /\ pc = "done"
    /\ ser_idx <= Len(returned)
    /\ LET out == InsertStatement(returned[ser_idx])
       IN  /\ printed' = printed \o out.printed
           /\ IF out.exit
              THEN /\ pc' = "failed"
                   /\ error' = Err("SystemExit", "insert_statement",
                                   returned[ser_idx].table_name, "", "", {})
                   /\ UNCHANGED <<statements, ser_idx>>
              ELSE /\ statements' = statements \o out.sql
                   /\ ser_idx' = ser_idx + 1
                   /\ UNCHANGED <<pc, error>>
    /\ UNCHANGED <<driver, import_specs, specs, id_col, row_num, row, spec_idx,
                   row_records, xref_map, record, records, returned>>

Next ==
    \/ Construct
    \/ StartImport
    \/ NextRow
    \/ EvalSpec
    \/ ReturnRow
    \/ EndOfFile
    \/ Serialize

(***************************************************************************)
(* The inputs: specification sets over a few (table, instance) pairs.      *)
(***************************************************************************)
PersonP1 == <<"Person", "p1">>
PersonP2 == <<"Person", "p2">>
OrderO1 == <<"Order", "o1">>

\* {t: {i: s}} from {(t, i): s}
Nest(flat) ==
    [t \in {k[1] : k \in DOMAIN flat} |->
        [i \in {k[2] : k \in {p \in DOMAIN flat : p[1] = t}} |-> flat[<<t, i>>]]]

SpecSets(paths, spec_choices) ==
    UNION {{Nest(f) : f \in [declared -> spec_choices]} : declared \in SUBSET paths}

InitRun ==
    /\ driver \in {"ETL", "Debugged"}
    /\ pc = "new"
    /\ specs = <<>>
    /\ error = NoError
    /\ row_num = 0
    /\ row = <<>>
    /\ spec_idx = 0
    /\ row_records = <<>>
    /\ xref_map = <<>>
    /\ record = <<>>
    /\ records = <<>>
    /\ returned = NoReturn
    /\ ser_idx = 0
    /\ statements = <<>>
    /\ printed = <<>>

\* Dependency structure: every spec has an id and up to MaxDeps XReferences,
\* to declared or undeclared pairs, itself included.
TopoPaths == <<PersonP1, PersonP2, OrderO1>>
TopoRefNames == <<"customer_id", "seller_id", "order_id">>

TopoAttrMap(refs) ==
    <<<<"id", ConstValue(One)>>>> \o
    [j \in 1..Len(refs) |->
        <<TopoRefNames[refs[j]],
          XReference(TopoPaths[refs[j]][1], TopoPaths[refs[j]][2], "id")>>]

TopoSpecs ==
    {RecordSpec(TopoAttrMap(refs), "None") :
        refs \in UNION {Orders(R) : R \in {Q \in SUBSET (1..Len(TopoPaths)) :
                                              Cardinality(Q) <= MaxDeps}}}

InitTopo ==
    /\ InitRun
    /\ id_col \in {"None", "name"}
    /\ import_specs \in SpecSets({TopoPaths[j] : j \in 1..Len(TopoPaths)}, TopoSpecs)

\* Row evaluation: Person p1 and Order o1, with conditions and providers that
\* may fail.
RowIdProviders ==
    {ConstValue(One), ColumnValue("name", "None"), RawValue(One),
     DynamicValue("lambda row: row.name")}
RowRefProviders ==
    {XReference("Person", "p1", "id"), XReference("Order", "o1", "id")}
RowAttrMaps ==
    {<<>>}
    \cup {<<<<"id", v>>>> : v \in RowIdProviders}
    \cup {<<<<"customer_id", x>>>> : x \in RowRefProviders}
    \cup {<<<<"id", v>>, <<"customer_id", x>>>> : v \in RowIdProviders, x \in RowRefProviders}
    \cup {<<<<"customer_id", x>>, <<"id", v>>>> : v \in RowIdProviders, x \in RowRefProviders}
RowConditions ==
    {"None", "lambda row: row['name'] != ''", "lambda row: row['name']"}
RowSpecs == {RecordSpec(m, c) : m \in RowAttrMaps, c \in RowConditions}

InitRow ==
    /\ InitRun
    /\ id_col = "None"
    /\ import_specs \in {Nest(f) : f \in [{PersonP1, OrderO1} -> RowSpecs]}

\* Serialization: one Person spec with up to MaxAttrs attributes, textual or not.
SerAttrNames == <<"id", "name", "age", "city", "zip">>
SerProviders ==
    {ConstValue(One), ConstValue(Five), DynamicValue("lambda row: row['name']"),
     ColumnValue("name", "lambda v: v or None"),
     ConstValue(PyStr(<<"'", "A", "'">>)), ConstValue(PyStr(<<"N", "o", "w">>))}
SerAttrMaps ==
    UNION {{[j \in 1..n |-> <<SerAttrNames[j], f[j]>>] : f \in [1..n -> SerProviders]} :
              n \in 0..MaxAttrs}

InitSer ==
    /\ InitRun
    /\ id_col = "name"
    /\ import_specs \in {Nest(PersonP1 :> RecordSpec(m, "None")) : m \in SerAttrMaps}

SpecTopo == InitTopo /\ [][Next]_vars
SpecRow == InitRow /\ [][Next]_vars
SpecSer == InitSer /\ [][Next]_vars

(***************************************************************************)
(* Vocabulary of the properties: the reference graph of the specification  *)
(* set, read off import_specs directly.                                    *)
(***************************************************************************)
Declared == UNION {{<<t, i>> : i \in DOMAIN import_specs[t]} : t \in DOMAIN import_specs}
SpecOf(a) == import_specs[a[1]][a[2]]

\* some attribute of spec a is an XReference to (table, instance) b
RefersTo(a, b) ==
    \E j \in 1..Len(SpecOf(a).attr_map) :
        /\ SpecOf(a).attr_map[j][2].kind = "XReference"
        /\ SpecOf(a).attr_map[j][2].table_name = b[1]
        /\ SpecOf(a).attr_map[j][2].instance_name = b[2]

AllPaths == {PersonP1, PersonP2, OrderO1}
Edge(a, b) == a \in Declared /\ a # b /\ RefersTo(a, b)
Missing == {b \in AllPaths \ Declared : \E a \in Declared : RefersTo(a, b)}

RECURSIVE ReachClosure(_)
ReachClosure(S) ==
    LET T == S \cup {b \in AllPaths : \E a \in S : Edge(a, b)}
    IN  IF T = S THEN S ELSE ReachClosure(T)

OnCycle(a) == a \in ReachClosure({b \in AllPaths : Edge(a, b)})
HasCycle == \E a \in Declared : OnCycle(a)

\* __init__ returned: self.specs is assigned
Built == pc # "new" /\ ~(pc = "failed" /\ error.origin \in {"_toposort", "__init__"})
PathAt(j) == <<specs[j][1], specs[j][2]>>
Position(a) == CHOOSE j \in 1..Len(specs) : PathAt(j) = a

\* in _records_for_row, about to run the loop body for self.specs[spec_idx]
AtSpec == pc = "row" /\ spec_idx <= Len(specs)
CurrentSpec == specs[spec_idx][3]
XRefItems(attr_map) == {j \in 1..Len(attr_map) : attr_map[j][2].kind = "XReference"}
TargetOf(x) == <<x.table_name, x.instance_name>>

(***************************************************************************)
(* C1. Topological validity: for every non-empty acyclic specification set *)
(* whose references are all declared, __init__ builds the spec list; in    *)
(* the list it builds, every (table, instance) B that some attribute of    *)
(* spec A references by an XReference (B different from A) stands strictly *)
(* before A, and the list holds every declared pair exactly once, with its *)
(* own RecordSpec.                                                         *)
(***************************************************************************)
C1_TopologicalValidity ==
    /\ (pc # "new" /\ ~HasCycle /\ Missing = {} /\ Declared # {}) => Built
    /\ Built =>
          /\ ~HasCycle /\ Missing = {}
          /\ Len(specs) = Cardinality(Declared)
          /\ \A a \in Declared : \E j \in 1..Len(specs) : PathAt(j) = a
          /\ \A j \in 1..Len(specs) : specs[j][3] = SpecOf(PathAt(j))
          /\ \A a \in Declared : \A b \in Declared :
                Edge(a, b) => Position(b) < Position(a)

\* a list was built for a chain A -> B -> C of three different specs
C1_Witness ==
    /\ Built
    /\ \E a \in Declared : \E b \in Declared : \E c \in Declared :
          a # c /\ Edge(a, b) /\ Edge(b, c)

(***************************************************************************)
(* C2. Cycle detection: when the reference graph has a cycle, construction *)
(* ends in the assertion failure of _toposort, raised with nodes           *)
(* remaining (those on the cycle among them), and self.specs is never      *)
(* assigned.                                                               *)
(***************************************************************************)
C2_CycleDetection ==
    (pc # "new" /\ HasCycle) =>
        /\ pc = "failed"
        /\ error.kind = "AssertionError"
        /\ error.origin = "_toposort"
        /\ \A a \in Declared : OnCycle(a) => a \in error.nodes
        /\ specs = <<>>

\* a cyclic set was rejected after a first layer had been yielded
C2_Witness ==
    /\ pc = "failed"
    /\ HasCycle
    /\ \E a \in Declared : a \notin error.nodes

(***************************************************************************)
(* C3 as stated. Missing-spec detection: when a spec references an         *)
(* undeclared pair, construction aborts with a message naming the missing  *)
(* instance and the table of the spec that holds the XReference.           *)
(***************************************************************************)
C3_NamesReferencingTable ==
    (pc # "new" /\ Missing # {}) =>
        /\ pc = "failed"
        /\ specs = <<>>
        /\ \E m \in Missing : \E a \in Declared :
              /\ RefersTo(a, m)
              /\ error.instance = m[2]
              /\ error.table = a[1]

(***************************************************************************)
(* C3 amended. When a spec references an undeclared pair, construction     *)
(* aborts and self.specs is never assigned; when the graph has no cycle    *)
(* the abort is raised in __init__ and names an undeclared, referenced     *)
(* pair by its own table and instance; with a cycle it is the assertion    *)
(* failure of _toposort.                                                   *)
(***************************************************************************)
C3_MissingSpecDetection ==
    (pc # "new" /\ Missing # {}) =>
        /\ pc = "failed"
        /\ specs = <<>>
        /\ ~HasCycle =>
              /\ error.origin = "__init__"
              /\ error.kind = (IF driver = "ETL" THEN "KeyError" ELSE "SystemExit")
              /\ <<error.table, error.instance>> \in Missing
        /\ HasCycle => error.kind = "AssertionError"

\* the abort named a missing pair whose table is not the table of any spec
\* that references it
C3_Witness ==
    /\ pc = "failed"
    /\ error.origin = "__init__"
    /\ <<error.table, error.instance>> \in Missing
    /\ \A a \in Declared : RefersTo(a, <<error.table, error.instance>>) => a[1] # error.table

\* import_data has not read a row, created a Record or returned
NothingProcessed ==
    /\ row = <<>>
    /\ row_num = 0
    /\ record = <<>>
    /\ records = <<>>
    /\ row_records = <<>>
    /\ returned = NoReturn
    /\ statements = <<>>

(***************************************************************************)
(* C9. Eager configuration checking: a specification set with a cycle or   *)
(* a reference to an undeclared pair never gets past construction, and     *)
(* whenever the run has ended in an error of construction no row has been  *)
(* read, no Record created and nothing returned.                           *)
(***************************************************************************)
C9_EagerConfigurationCheck ==
    /\ (HasCycle \/ Missing # {}) => (pc \in {"new", "failed"} /\ NothingProcessed)
    /\ (pc = "failed" /\ error.origin \in {"_toposort", "__init__"}) => NothingProcessed
    /\ (pc = "failed" /\ error.kind = "AssertionError") => error.origin = "_toposort"

\* ETL.py stopped in __init__ on the KeyError of a missing spec, before any row
C9_Witness ==
    /\ pc = "failed"
    /\ driver = "ETL"
    /\ error.kind = "KeyError"
    /\ error.origin = "__init__"
    /\ Missing # {}
    /\ NothingProcessed

(***************************************************************************)
(* Vocabulary of the row properties.                                       *)
(***************************************************************************)
\* the specs before position spec_idx whose (table, instance) is in xref_map
Registered == {j \in 1..(spec_idx - 1) : PathAt(j) \in DOMAIN xref_map}

\* every item of attr_map can be read with the sibling map m: constants,
\* columns of the row, and XReferences to an attribute of a Record in m
Readable(attr_map, m) ==
    \A j \in 1..Len(attr_map) :
        LET v == attr_map[j][2]
        IN  \/ v.kind = "ConstValue"
            \/ v.kind = "ColumnValue" /\ v.col_name \in DOMAIN row
            \/ /\ v.kind = "XReference"
               /\ TargetOf(v) \in DOMAIN m
               /\ HasKey(m[TargetOf(v)].attributes, v.attribute_name)

(***************************************************************************)
(* C4 as stated. Condition filtering: a spec whose condition yields any    *)
(* false result for the row (False, but also '' or None) leaves no entry   *)
(* under its (table, instance) in the row's sibling map, and no Record:    *)
(* the row has at most as many Records as specs whose condition was true.  *)
(***************************************************************************)
C4_FalsyConditionSkips ==
    pc = "row" =>
        /\ \A j \in 1..(spec_idx - 1) :
              ~Truthy(Condition(specs[j][3], row)) => PathAt(j) \notin DOMAIN xref_map
        /\ Len(row_records) <=
              Cardinality({j \in 1..(spec_idx - 1) : Truthy(Condition(specs[j][3], row))})

C6_CrossReferenceResolution ==
    [][(/\ AtSpec
        /\ ~IsLiteralFalse(Condition(CurrentSpec, row))
        /\ XRefItems(CurrentSpec.attr_map) # {}
        /\ Readable(CurrentSpec.attr_map, xref_map))
       => (/\ pc' = "row"
           /\ row_records' = Append(row_records, record')
           /\ \A j \in XRefItems(CurrentSpec.attr_map) :
                 LET k == CurrentSpec.attr_map[j][1]
                     x == CurrentSpec.attr_map[j][2]
                 IN  /\ HasKey(record'.attributes, k)
                     /\ Get(record'.attributes, k) =
                           Get(xref_map[TargetOf(x)].attributes, x.attribute_name))]_vars

(***************************************************************************)
(* C7. Fail-fast on an unmaterialized sibling: when the loop evaluates a   *)
(* spec whose condition is true and which holds an XReference to a         *)
(* (table, instance) without entry in the row's sibling map, the run ends  *)
(* there: no Record is added, import_data never returns, nothing is        *)
(* serialized; and a run that failed returns nothing afterwards.           *)
(***************************************************************************)
C7_FailFastOnUnmaterializedSibling ==
    /\ [](pc = "failed" /\ error.origin # "insert_statement" => returned = NoReturn)
    /\ [][(/\ AtSpec
           /\ Truthy(Condition(CurrentSpec, row))
           /\ \E j \in XRefItems(CurrentSpec.attr_map) :
                 TargetOf(CurrentSpec.attr_map[j][2]) \notin DOMAIN xref_map)
          => (/\ pc' = "failed"
              /\ error' # NoError
              /\ row_records' = row_records
              /\ records' = records
              /\ returned' = NoReturn
              /\ statements' = <<>>)]_vars
    /\ [][pc = "failed" => UNCHANGED vars]_vars

\* ETL.py, second row: the referenced spec's condition was False for this row,
\* the XReference raised KeyError, and the first row's Records are not returned
C7_Witness ==
    /\ pc = "failed"
    /\ driver = "ETL"
    /\ error.kind = "KeyError"
    /\ error.origin = "XReference._read"
    /\ row_num = 1
    /\ records # <<>>
    /\ returned = NoReturn
    /\ \E j \in 1..(spec_idx - 1) :
          /\ IsLiteralFalse(Condition(specs[j][3], row))
          /\ \E n \in XRefItems(CurrentSpec.attr_map) :
                TargetOf(CurrentSpec.attr_map[n][2]) = PathAt(j)

(***************************************************************************)
(* C8 as stated. Malformed-provider failure: whenever import_attributes    *)
(* takes its malformed-spec path (the handler of AttributeError), some     *)
(* value of the attribute map lacks _read, the run exits with a message    *)
(* naming such an attribute and the Record's table, and the Record's       *)
(* attributes are left empty.                                              *)
(***************************************************************************)
C8_MalformedProviderReported ==
    (pc = "failed" /\ error.origin = "import_attributes") =>
        /\ error.kind = "SystemExit"
        /\ HasKey(CurrentSpec.attr_map, error.attr)
        /\ LacksRead(Get(CurrentSpec.attr_map, error.attr))
        /\ error.table = record.table_name
        /\ record.attributes = <<>>

(***************************************************************************)
(* Vocabulary of the serializer properties.                                *)
(***************************************************************************)
\* the attributes of Record r whose value is not a str
NonTextual(r) == {j \in 1..Len(r.attributes) : r.attributes[j][2].t # "str"}

\* the ERROR lines among the lines printed from line n + 1 of out on
ErrorsAfter(out, n) ==
    SelectSeq(SubSeq(out, n + 1, Len(out)), LAMBDA m : m.level = "ERROR")

(***************************************************************************)
(* C10. Serializer validation: insert_statement on a Record with a         *)
(* non-textual value prints one ERROR per non-textual attribute (naming    *)
(* the attribute, its value and the table), then exits without returning   *)
(* a statement; on a Record whose values are all textual it prints no      *)
(* ERROR, does not exit and returns one statement for the Record's table   *)
(* whose column list and value list follow the Record's attribute order.   *)
(***************************************************************************)
C10_SerializerValidation ==
    [][(pc = "done" /\ ser_idx <= Len(returned)) =>
        LET r == returned[ser_idx]
            errors == ErrorsAfter(printed', Len(printed))
        IN  /\ SubSeq(printed', 1, Len(printed)) = printed
            /\ Len(errors) = Cardinality(NonTextual(r))
            /\ \A j \in NonTextual(r) :
                  \E n \in 1..Len(errors) :
                     /\ errors[n].attr = r.attributes[j][1]
                     /\ errors[n].value = r.attributes[j][2]
                     /\ errors[n].table = r.table_name
            /\ IF NonTextual(r) # {}
               THEN /\ pc' = "failed"
                    /\ error'.kind = "SystemExit"
                    /\ statements' = statements
               ELSE /\ pc' = "done"
                    /\ ser_idx' = ser_idx + 1
                    /\ Len(statements') = Len(statements) + 1
                    /\ SubSeq(statements', 1, Len(statements)) = statements
                    /\ LET sql == statements'[Len(statements')]
                       IN  /\ sql.table_name = r.table_name
                           /\ Len(sql.col) = Len(sql.val)
                           /\ Len(r.attributes) > 0 =>
                                 Len(sql.col) = 2 * Len(r.attributes) - 1
                           /\ \A j \in 1..Len(r.attributes) :
                                 /\ sql.col[2 * j - 1] = r.attributes[j][1]
                                 /\ sql.val[2 * j - 1] = r.attributes[j][2].v]_vars

\* the second Record stopped the run with two ERROR lines, after a statement
\* had been returned for the first and a WARNING printed
C10_Witness ==
    /\ pc = "failed"
    /\ error.origin = "insert_statement"
    /\ ser_idx = 2
    /\ Len(statements) = 1
    /\ Len(ErrorsAfter(printed, 0)) = 2
    /\ \E n \in 1..Len(printed) : printed[n].level = "WARNING"

====
